---- MODULE Spec2Model ----
(***************************************************************************)
(* Model of the terminator crate (src/src/lib.rs) and of the entry point   *)
(* that uses it (src/examples/terminator.rs).                              *)
(*                                                                         *)
(* Text is a sequence of characters.  A failure value v carries the text   *)
(* its Display implementation writes, whether that implementation returns  *)
(* an error, and the text its Debug implementation writes.                 *)
(*                                                                         *)
(* Two specifications:                                                     *)
(*   Spec      a client of the library: one conversion, then renders of    *)
(*             the wrapper into formatters of the client's choosing;       *)
(*   SpecMain  fn main() -> Result<(), Terminator> with a call chain below *)
(*             it, up to the report the runtime makes of main's result.    *)
(***************************************************************************)
EXTENDS Integers, Sequences, FiniteSets, TLC

\* ---------------------------------------------------------------- bounds
MaxLen == 2        \* longest message text
MaxRenders == 2    \* renders a client makes of one wrapper
MaxDepth == 2      \* functions between main and the failing operation
MaxRoom == 1       \* largest finite capacity of a formatting sink

\* ------------------------------------------------------------------ text
Alphabet == {"h", "i", "\""}

Texts == UNION {[1..k -> Alphabet] : k \in 0..MaxLen}

Take(s, n) == SubSeq(s, 1, IF n < Len(s) THEN n ELSE Len(s))

Drop(s, n) == SubSeq(s, n + 1, Len(s))

IsPrefix(p, s) == Len(p) <= Len(s) /\ Take(s, Len(p)) = p

RECURSIVE Spaces(_)
Spaces(n) == IF n <= 0 THEN <<>> ELSE <<" ">> \o Spaces(n - 1)

\* <str as Debug>::fmt : the text between double quotes, with a backslash
\* before each double quote.
RECURSIVE EscapeDebug(_)
EscapeDebug(s) ==
    IF s = <<>> THEN <<>>
    ELSE (IF Head(s) = "\"" THEN <<"\\", "\"">> ELSE <<Head(s)>>)
         \o EscapeDebug(Tail(s))

StrDebug(s) == <<"\"">> \o EscapeDebug(s) \o <<"\"">>

\* --------------------------------------------------------- failure values
\* A type implementing std::error::Error: Display and Debug are its own.
\* Its Debug form is either the derived one (name, braces, quoted field) or
\* happens to coincide with its Display form.  `fails` says that its
\* Display::fmt returns Err.
ErrorValues ==
    {[kind |-> "error", display |-> d, fails |-> b, derived |-> g] :
        d \in Texts, b \in BOOLEAN, g \in BOOLEAN}

\* Plain text: &str and String.
TextValues ==
    {[kind |-> k, display |-> d, fails |-> FALSE, derived |-> FALSE] :
        k \in {"str", "String"}, d \in Texts}

Inputs == ErrorValues \cup TextValues

\* What x's Display::fmt writes.
DisplayText(x) == x.display

\* What x's Debug::fmt writes.
DebugText(x) ==
    IF x.kind = "error"
    THEN (IF x.derived THEN <<"E", "{">> \o StrDebug(x.display) \o <<"}">>
          ELSE x.display)
    ELSE StrDebug(x.display)

\* ------------------------------------------------------------ conversion
\* A variant of into in which the boxed text displays in its quoted form.
intoQuoted(x) ==
    IF x.kind \in {"str", "String"}
    THEN [x EXCEPT !.kind = "StringError", !.display = StrDebug(@)]
    ELSE x

\* T: Into<Box<dyn Error>>.  An error type is boxed as it is and the box
\* displays as the value does; text becomes the standard library's private
\* StringError, which displays as the text.
into(x) ==
    IF x.kind \in {"str", "String"}
    THEN [x EXCEPT !.kind = "StringError"]
    ELSE x

\* A variant of to_string that keeps what was written when Display fails.
to_string_lossy(b) == [panicked |-> FALSE, s |-> DisplayText(b)]

\* ToString for a Display type: collects what Display::fmt writes, and
\* panics when Display::fmt returns an error.
to_string(b) ==
    IF b.fails THEN [panicked |-> TRUE, s |-> <<>>]
    ELSE [panicked |-> FALSE, s |-> DisplayText(b)]

\* A variant of From that stores the Debug form of the input.
FromDebug(x) ==
    [panicked |-> to_string(into(x)).panicked,
     self |-> [err |-> DebugText(into(x))]]

\* impl<T: Into<Box<dyn Error>>> From<T> for Terminator
\*     Self { err: err.into().to_string() }
From(x) ==
    LET r == to_string(into(x))
    IN  [panicked |-> r.panicked, self |-> [err |-> r.s]]

\* impl<T: Into<Box<Error>>> From<T> for Terminator   (feature rust2015)
From2015(x) ==
    LET r == to_string(into(x))
    IN  [panicked |-> r.panicked, self |-> [err |-> r.s]]

\* ------------------------------------------------------------- formatter
Unbounded == 0 - 1

Rooms == (0..MaxRoom) \cup {Unbounded}

Widths == {0, MaxLen + 1}

Priors == {<<>>, <<"$">>}

Formatters == {[buf |-> p, room |-> r, width |-> w] :
                  p \in Priors, r \in Rooms, w \in Widths}

Fits(f, s) == f.room = Unbounded \/ Len(s) <= f.room

\* fmt::Write::write_str on the formatter's sink: a sink with no room left
\* takes what fits and reports an error.
write_str(f, s) ==
    IF Fits(f, s)
    THEN [f |-> [f EXCEPT !.buf = @ \o s,
                          !.room = IF @ = Unbounded THEN @ ELSE @ - Len(s)],
          res |-> "Ok"]
    ELSE [f |-> [f EXCEPT !.buf = @ \o Take(s, f.room), !.room = 0],
          res |-> "Err"]

\* Formatter::pad : fills up to the formatter's width (left aligned).
pad(f, s) == write_str(f, s \o Spaces(f.width - Len(s)))

\* write!(f, "{}", s) : Formatter::write_fmt formats the argument with the
\* options of the "{}" placeholder, not with those of f.
write_fmt(f, s) ==
    LET r == pad([f EXCEPT !.width = 0], s)
    IN  [f |-> [r.f EXCEPT !.width = f.width], res |-> r.res]

\* Variants of fmt: the derived Debug form; one that swallows the sink's
\* error; one that moves the message out of the wrapper.
fmtDerived(self, f) ==
    LET r == write_fmt(f, <<"T", "{">> \o StrDebug(self.err) \o <<"}">>)
    IN  [self |-> self, f |-> r.f, res |-> r.res]

fmtSwallow(self, f) ==
    LET r == write_fmt(f, self.err)
    IN  [self |-> self, f |-> r.f, res |-> "Ok"]

fmtTake(self, f) ==
    LET r == write_fmt(f, self.err)
    IN  [self |-> [err |-> <<>>], f |-> r.f, res |-> r.res]

\* impl Debug for Terminator :: fmt(&self, f)
\*     write!(f, "{}", self.err)
\* The wrapper is borrowed immutably: it is handed back as it was.
fmt(self, f) ==
    LET r == write_fmt(f, self.err)
    IN  [self |-> self, f |-> r.f, res |-> r.res]

\* ----------------------------------------------------------------- state
VARIABLES
    v,         \* the failure value
    st,        \* conversion: "input", "built" or "panicked"
    t,         \* the wrapper, once built (default build): <<>> or <<self>>
    t15,       \* the wrapper built from the same value by the rust2015 build
    made,      \* the message as it was when the wrapper was constructed
    renders,   \* the client's renders so far, one record each
    stderr,    \* the process's standard error stream
    pc,        \* SpecMain: where the program is
    chain,     \* SpecMain: declared error type of each function below main
    level,     \* SpecMain: the function running (0 is main)
    carried,   \* SpecMain: the result on its way up: <<>> not yet, else <<r>>
    exitCode,  \* SpecMain: the process's exit status, once exited
    created,   \* SpecMain: wrappers constructed
    rendered   \* SpecMain: calls of the wrapper's Debug::fmt

vars == <<v, st, t, t15, made, renders, stderr, pc, chain, level, carried,
          exitCode, created, rendered>>

libVars == <<v, st, t, t15, made, renders>>

mainVars == <<pc, chain, level, carried, exitCode, created, rendered>>

\* What the panic hook writes (the message of to_string's expect).
PanicMessage == <<"p", "a", "n", "i", "c">>

\* -------------------------------------------------- Spec: a library client
Init ==
    /\ v \in Inputs
    /\ st = "input"
    /\ t = <<>>
    /\ t15 = <<>>
    /\ made = <<>>
    /\ renders = <<>>
    /\ stderr = [buf |-> <<>>, room |-> Unbounded, width |-> 0]
    /\ pc = "lib"
    /\ chain = <<>>
    /\ level = 0
    /\ carried = <<>>
    /\ exitCode = 0
    /\ created = 0
    /\ rendered = 0

\* Terminator::from(v), under each of the two builds.  A panic unwinds out
\* of the conversion: no wrapper, and the panic hook writes to stderr.
Convert ==
    /\ st = "input"
    /\ LET r == From(v)
           r15 == From2015(v)
       IN  /\ st' = IF r.panicked THEN "panicked" ELSE "built"
           /\ t' = IF r.panicked THEN <<>> ELSE <<r.self>>
           /\ made' = IF r.panicked THEN <<>> ELSE <<r.self.err>>
           /\ t15' = IF r15.panicked THEN <<>> ELSE <<r15.self>>
           /\ stderr' = IF r.panicked
                        THEN write_str(stderr, PanicMessage).f
                        ELSE stderr
    /\ UNCHANGED <<v, renders>>
    /\ UNCHANGED mainVars

\* The client formats the wrapper with {:?} (any width) into a sink of its
\* choosing; the same is done with the rust2015 build's wrapper.
Render ==
    /\ st = "built"
    /\ Len(t) = 1
    /\ Len(t15) = 1
    /\ Len(renders) < MaxRenders
    /\ \E f \in Formatters :
         LET r == fmt(t[1], f)
             r15 == fmt(t15[1], f)
         IN  /\ t' = <<r.self>>
             /\ t15' = <<r15.self>>
             /\ renders' = Append(renders,
                   [pre |-> f, post |-> r.f, res |-> r.res,
                    sinkFailed |-> write_str(f, t[1].err).res = "Err",
                    post15 |-> r15.f, res15 |-> r15.res])
    /\ UNCHANGED <<v, st, made, stderr>>
    /\ UNCHANGED mainVars

Next == Convert \/ Render

Spec == Init /\ [][Next]_vars

\* ------------------------------------------------ properties under Spec
\* What a render appended to its sink.
Appended(r) == Drop(r.post.buf, Len(r.pre.buf))

OkRenders == {i \in 1..Len(renders) : renders[i].res = "Ok"}

\* C1: round trip.  Whatever the input's Debug form, a wrapper built from v
\* and rendered by Debug::fmt yields exactly the text v's Display writes;
\* where the two forms of v differ, the output is the Display form.
C1_RoundTrip ==
    \A i \in OkRenders :
        /\ Appended(renders[i]) = DisplayText(v)
        /\ DebugText(v) # DisplayText(v)
              => Appended(renders[i]) # DebugText(v)

C1_Witness ==
    /\ OkRenders # {}
    /\ v.kind = "error"
    /\ v.derived
    /\ Len(DisplayText(v)) = MaxLen
    /\ DebugText(v) # DisplayText(v)

\* C2: a successful render leaves the sink holding its prior content
\* followed by the stored message and nothing else, whatever the prior
\* content and whatever width the formatter asks for.
C2_AppendsExactlyMessage ==
    \A i \in OkRenders :
        /\ renders[i].post.buf = renders[i].pre.buf \o made[1]
        /\ renders[i].post.width = renders[i].pre.width

C2_Witness ==
    \E i \in OkRenders :
        /\ renders[i].pre.buf # <<>>
        /\ renders[i].pre.width > Len(made[1])
        /\ made[1] # <<>>
        /\ "\"" \in {made[1][k] : k \in 1..Len(made[1])}

\* C5: write-once.  After construction the stored message is the one set
\* at construction, however many renders were made, and all successful
\* renders of the wrapper produced the same text.
C5_WriteOnce ==
    st = "built" =>
        /\ t[1].err = made[1]
        /\ \A i, j \in OkRenders :
              Appended(renders[i]) = Appended(renders[j])

C5_Witness ==
    /\ st = "built"
    /\ Len(renders) >= 2
    /\ \A i \in 1..Len(renders) : renders[i].res = "Ok"
    /\ renders[1].pre # renders[2].pre
    /\ made[1] # <<>>

\* C6: a render returns Err exactly when the sink failed on the message,
\* and the stored message is what it was after a failed render.
C6_ErrIffSinkFails ==
    \A i \in 1..Len(renders) :
        /\ (renders[i].res = "Err") <=> renders[i].sinkFailed
        /\ renders[i].res = "Err" => t[1].err = made[1]

C6_Witness ==
    \E i \in 1..Len(renders) :
        /\ renders[i].res = "Err"
        /\ renders[i].sinkFailed
        /\ renders[i].pre.room > 0
        /\ IsPrefix(renders[i].post.buf, renders[i].pre.buf \o made[1])

\* C7 as stated: the conversion never aborts, returns exactly one wrapper
\* and does no I/O, also when the input's Display reports a failure.
C7_Original ==
    st # "input" => /\ st = "built"
                    /\ Len(t) = 1
                    /\ stderr.buf = <<>>

\* C7 amended: the conversion panics exactly when the input's Display::fmt
\* returns an error; otherwise it returns exactly one wrapper and writes
\* nothing.  A panic produces no wrapper.
C7_TotalUnlessDisplayFails ==
    /\ st = "panicked" <=> (st # "input" /\ into(v).fails)
    /\ st = "built" => Len(t) = 1 /\ stderr.buf = <<>>
    /\ st = "panicked" => t = <<>>

C7_Witness ==
    /\ st = "built"
    /\ renders = <<>>
    /\ v.kind = "error"
    /\ ~v.fails

C10_BuildsAgree ==
    /\ Len(t) = Len(t15)
    /\ st = "built" => t[1].err = t15[1].err
    /\ \A i \in 1..Len(renders) :
          /\ renders[i].post = renders[i].post15
          /\ renders[i].res = renders[i].res15

C10_Witness ==
    /\ st = "built"
    /\ OkRenders # {}
    /\ \E i \in 1..Len(renders) : renders[i].res = "Err"
    /\ DebugText(v) # DisplayText(v)

\* ------------------------------------- SpecMain: main() -> Result<(), Terminator>
\* Declared error type of a function below main: the failure's own type, or
\* Box<dyn Error> (as fn run() in the crate documentation).
LevelTypes == {"same", "box"}

Chains == UNION {[1..k -> LevelTypes] : k \in 0..MaxDepth}

\* What the runtime writes before the Debug form of main's error.
ReportPrefix == <<"E", "r", "r", "o", "r", ":", " ">>

StderrRooms == {0, Len(ReportPrefix) + MaxRoom, Unbounded}

Ok == [ok |-> TRUE, e |-> <<>>]

Err(x) == [ok |-> FALSE, e |-> <<x>>]

\* A variant of the propagation operator that adds context to the message.
QuestionMarkContext(ty, x) ==
    IF ty = "box" THEN [into(x) EXCEPT !.display = <<"!">> \o @] ELSE x

\* The ? operator in a function below main: From::from into the function's
\* declared error type (the identity, or the boxing conversion).
QuestionMark(ty, x) == IF ty = "box" THEN into(x) ELSE x

\* A variant of report that formats the error twice.
reportTwice(result, self, e) ==
    IF result.ok
    THEN [stderr |-> e, code |-> 0, calls |-> 0, self |-> self]
    ELSE LET w1 == write_str(e, ReportPrefix)
             r1 == fmt(self[1], w1.f)
             r2 == fmt(r1.self, r1.f)
             w3 == write_str(r2.f, <<"\n">>)
         IN  [stderr |-> w3.f, code |-> 1, calls |-> 2, self |-> <<r2.self>>]

\* What the runtime does with the value main returned (Termination for
\* Result<(), E: Debug>): nothing and status 0 for Ok; for Err(self) it
\* prints "Error: {self:?}" and a line break to stderr, stopping at the
\* first write that fails and ignoring that failure, and the status is 1.
report(result, self, e) ==
    IF result.ok
    THEN [stderr |-> e, code |-> 0, calls |-> 0, self |-> self]
    ELSE LET w1 == write_str(e, ReportPrefix)
             r  == IF w1.res = "Ok" THEN fmt(self[1], w1.f)
                   ELSE [self |-> self[1], f |-> w1.f, res |-> "Err"]
             w3 == IF r.res = "Ok" THEN write_str(r.f, <<"\n">>)
                   ELSE [f |-> r.f, res |-> "Err"]
         IN  [stderr |-> w3.f, code |-> 1,
              calls |-> IF w1.res = "Ok" THEN 1 ELSE 0,
              self |-> <<r.self>>]

InitMain ==
    /\ v \in Inputs
    /\ st = "input"
    /\ t = <<>>
    /\ t15 = <<>>
    /\ made = <<>>
    /\ renders = <<>>
    /\ stderr \in {[buf |-> <<>>, room |-> r, width |-> 0] : r \in StderrRooms}
    /\ pc = "call"
    /\ chain \in Chains
    /\ level = 0
    /\ carried = <<>>
    /\ exitCode = 0
    /\ created = 0
    /\ rendered = 0

\* A function calls the next one down.
Call ==
    /\ pc = "call"
    /\ level < Len(chain)
    /\ level' = level + 1
    /\ UNCHANGED <<pc, chain, carried, exitCode, created, rendered, stderr>>
    /\ UNCHANGED libVars

\* The innermost function's operation (fs::read_to_string) fails with v.
OperationFails ==
    /\ pc = "call"
    /\ level = Len(chain)
    /\ carried' = <<Err(v)>>
    /\ pc' = "return"
    /\ UNCHANGED <<chain, level, exitCode, created, rendered, stderr>>
    /\ UNCHANGED libVars

\* The operation succeeds.
OperationSucceeds ==
    /\ pc = "call"
    /\ level = Len(chain)
    /\ carried' = <<Ok>>
    /\ pc' = "return"
    /\ UNCHANGED <<chain, level, exitCode, created, rendered, stderr>>
    /\ UNCHANGED libVars

\* A function below main applies ? to the result it got and returns.
Propagate ==
    /\ pc = "return"
    /\ level > 0
    /\ carried' = IF carried[1].ok THEN <<Ok>>
                  ELSE <<Err(QuestionMark(chain[level], carried[1].e[1]))>>
    /\ level' = level - 1
    /\ UNCHANGED <<pc, chain, exitCode, created, rendered, stderr>>
    /\ UNCHANGED libVars

\* main got Ok: it runs to its end and returns Ok(()).
MainReturnsOk ==
    /\ pc = "return"
    /\ level = 0
    /\ carried[1].ok
    /\ pc' = "report"
    /\ UNCHANGED <<chain, level, carried, exitCode, created, rendered, stderr>>
    /\ UNCHANGED libVars

\* main got Err(e): its ? calls Terminator::from(e) and returns the wrapper.
\* If the conversion panics the panic hook writes to stderr and the process
\* ends with status 101.
MainQuestionMark ==
    /\ pc = "return"
    /\ level = 0
    /\ ~carried[1].ok
    /\ LET r == From(carried[1].e[1])
       IN  /\ st' = IF r.panicked THEN "panicked" ELSE "built"
           /\ t' = IF r.panicked THEN <<>> ELSE <<r.self>>
           /\ made' = IF r.panicked THEN <<>> ELSE <<r.self.err>>
           /\ created' = IF r.panicked THEN created ELSE created + 1
           /\ stderr' = IF r.panicked
                        THEN write_str(stderr, PanicMessage).f
                        ELSE stderr
           /\ pc' = IF r.panicked THEN "exited" ELSE "report"
           /\ exitCode' = IF r.panicked THEN 101 ELSE exitCode
    /\ UNCHANGED <<v, t15, renders, chain, level, carried, rendered>>

\* The runtime reports main's result and the process ends.
Report ==
    /\ pc = "report"
    /\ LET r == report(carried[1], t, stderr)
       IN  /\ stderr' = r.stderr
           /\ exitCode' = r.code
           /\ rendered' = rendered + r.calls
           /\ t' = r.self
    /\ pc' = "exited"
    /\ UNCHANGED <<v, st, t15, made, renders, chain, level, carried, created>>

NextMain ==
    \/ Call
    \/ OperationFails
    \/ OperationSucceeds
    \/ Propagate
    \/ MainReturnsOk
    \/ MainQuestionMark
    \/ Report

SpecMain == InitMain /\ [][NextMain]_vars

\* -------------------------------------------- properties under SpecMain
Exited == pc = "exited"

\* main's operation failed with a value whose Display succeeds.
Failed == carried # <<>> /\ ~carried[1].ok /\ ~v.fails

Succeeded == carried # <<>> /\ carried[1].ok

\* Everything the runtime prints for a failure with v.
FullReport == ReportPrefix \o DisplayText(v) \o <<"\n">>

\* C3 as stated: when main fails with a failure displaying as m, stderr has
\* received exactly m and the status is 1; when main succeeds no wrapper is
\* created and nothing is written.  (Stated for a stderr that accepts every
\* write.)
C3_Original ==
    (Exited /\ stderr.room = Unbounded) =>
        /\ Failed => stderr.buf = DisplayText(v) /\ exitCode = 1
        /\ Succeeded => stderr.buf = <<>> /\ created = 0

\* C3 amended: when main fails with a failure displaying as m, at process
\* end stderr has received "Error: ", then m with nothing added to it, then
\* a line break (all of it when stderr accepts every write, a prefix of it
\* otherwise) and the status is 1; when main succeeds no wrapper is
\* created, nothing is written and the status is 0.
C3_EndToEnd ==
    Exited =>
        /\ Failed => /\ exitCode = 1
                     /\ IsPrefix(stderr.buf, FullReport)
                     /\ stderr.room = Unbounded => stderr.buf = FullReport
        /\ Succeeded => /\ exitCode = 0
                        /\ stderr.buf = <<>>
                        /\ created = 0
                        /\ t = <<>>

C3_Witness ==
    /\ Exited
    /\ Failed
    /\ stderr.room = Unbounded
    /\ v.kind = "error"
    /\ v.derived
    /\ Len(DisplayText(v)) = MaxLen
    /\ stderr.buf = FullReport

\* C4: whatever the depth of the call chain and the error types declared
\* along it, the failure on its way up displays as m, the wrapper built at
\* the entry point stores m, and what is rendered after the runtime's
\* prefix is m.
C4_Propagation ==
    /\ (carried # <<>> /\ ~carried[1].ok)
          => DisplayText(carried[1].e[1]) = DisplayText(v)
    /\ t # <<>> => t[1].err = DisplayText(v)
    /\ (Exited /\ t # <<>> /\ stderr.room = Unbounded)
          => Drop(stderr.buf, Len(ReportPrefix)) = DisplayText(v) \o <<"\n">>

C4_Witness ==
    /\ Exited
    /\ Len(chain) = MaxDepth
    /\ chain[MaxDepth] = "box"
    /\ t # <<>>
    /\ v.kind = "str"
    /\ Len(DisplayText(v)) = MaxLen
    /\ stderr.room = Unbounded

\* C8 as stated: in every execution the wrapper is created exactly once and
\* rendered exactly once.  (Stated for a stderr that accepts every write
\* and a failure value whose Display succeeds.)
C8_Original ==
    (Exited /\ ~v.fails /\ stderr.room = Unbounded) =>
        created = 1 /\ rendered = 1

\* C8 amended: in an execution of an entry point that only propagates, the
\* wrapper is created at most once: exactly once when main fails (and the
\* conversion completes), never when main succeeds.  It is rendered at most
\* once, never before the runtime's report, and exactly once when the
\* report got as far as the wrapper; the render leaves the message as it
\* was constructed.
C8_Lifecycle ==
    /\ rendered <= created
    /\ created <= 1
    /\ ~Exited => rendered = 0
    /\ created = 1 <=> t # <<>>
    /\ t # <<>> => t[1].err = made[1]
    /\ Exited =>
          /\ Succeeded => created = 0
          /\ Failed => /\ created = 1
                       /\ rendered = 1 <=> IsPrefix(ReportPrefix, stderr.buf)

C8_Witness ==
    /\ Exited
    /\ Failed
    /\ created = 1
    /\ rendered = 1
    /\ made # <<>>
    /\ made[1] # <<>>

====
